---- MODULE Spec2Model ----
(***************************************************************************)
(* Model of the LogPSplines core: knot selection (init_knots), basis and   *)
(* penalty construction (init_basis_and_penalty), weight initialisation    *)
(* (init_weights) and the LogPSplines aggregate.                           *)
(*                                                                         *)
(* Numbers.  Real values (frequencies, knots) are held in fixed point:     *)
(* an integer x stands for x / Scale, and every real operation rounds      *)
(* towards minus infinity to that grid.  NaN is a distinguished value.     *)
(* Fractions (frac_uniform, frac_log) are held as k, standing for          *)
(* k / FracDen.  Python values that can be of more than one type (None or  *)
(* an array, an int where a Periodogram is expected) are tagged records.   *)
(***************************************************************************)
EXTENDS Integers, Sequences, FiniteSets, TLC

\* ---------------------------------------------------------------- bounds
MaxKnots == 10      \* largest n_knots argument tried
MaxFreq == 3        \* frequencies are drawn from 1..MaxFreq
MaxPower == 1       \* power values are drawn from 0..MaxPower
FracDen == 5        \* fractions are k / FracDen
Scale == 6          \* fixed-point resolution of real values

VARIABLES call, model, iw, obs

vars == <<call, model, iw, obs>>

\* ------------------------------------------------------------ arithmetic
NaN == 0 - 1

Min2(a, b) == IF a <= b THEN a ELSE b

Max2(a, b) == IF a >= b THEN a ELSE b

\* Python's int() of the quotient num / den (den > 0): truncation towards 0.
Trunc(num, den) == IF num >= 0 THEN num \div den ELSE 0 - ((0 - num) \div den)

RECURSIVE SumSeq(_)
SumSeq(s) == IF s = <<>> THEN 0 ELSE Head(s) + SumSeq(Tail(s))

\* Prefix sums: np.cumsum.
CumSum(s) == [i \in 1..Len(s) |-> SumSeq(SubSeq(s, 1, i))]

\* Unbounded naturals as little-endian digit sequences (base 10000), for the
\* powers that logspace needs.
RECURSIVE BigMulCarry(_, _, _)
BigMulCarry(a, k, carry) ==
    IF a = <<>>
    THEN IF carry = 0 THEN <<>> ELSE <<carry>>
    ELSE LET t == Head(a) * k + carry
         IN  <<t % 10000>> \o BigMulCarry(Tail(a), k, t \div 10000)

BigMul(a, k) == BigMulCarry(a, k, 0)

\* a * x^m.
RECURSIVE BigMulPow(_, _, _)
BigMulPow(a, x, m) == IF m = 0 THEN a ELSE BigMulPow(BigMul(a, x), x, m - 1)

BigPow(x, m) == BigMulPow(<<1>>, x, m)

BigLeq(a, b) ==
    IF Len(a) # Len(b)
    THEN Len(a) < Len(b)
    ELSE LET diff == {i \in 1..Len(a) : a[i] # b[i]}
         IN  \/ diff = {}
             \/ LET top == CHOOSE i \in diff : \A j \in diff : j <= i
                IN  a[top] < b[top]

\* The largest x in lo..hi with x^m <= c (c a digit sequence, lo^m <= c).
RECURSIVE RootSearch(_, _, _, _)
RootSearch(lo, hi, m, c) ==
    IF lo >= hi
    THEN lo
    ELSE LET mid == (lo + hi + 1) \div 2
         IN  IF BigLeq(BigPow(mid, m), c)
             THEN RootSearch(mid, hi, m, c)
             ELSE RootSearch(lo, mid - 1, m, c)

\* ------------------------------------------------------------ numpy
\* np.linspace(lo, hi, num)[i] for 0 <= i <= num - 1, lo and hi in Hz.
Linspace(lo, hi, num, i) == Scale * lo + (Scale * i * (hi - lo)) \div (num - 1)

\* np.logspace(log10(lo), log10(hi), num)[i] = lo^((d-i)/d) * hi^(i/d), d = num - 1.
Logspace(lo, hi, num, i) ==
    LET d == num - 1
        c == BigMulPow(BigMulPow(BigPow(Scale, d), lo, d - i), hi, i)
    IN  RootSearch(Scale * lo, Scale * hi, d, c)

\* np.interp(x, xp, fp) with x = qn / qd and xp[i] = cum[i] / total:
\* fp[1] left of xp[1], fp[last] from xp[last] on, else linear between the
\* last j with xp[j] <= x and j + 1.
Interp(qn, qd, cum, total, fp) ==
    LET L == Len(fp)
        below == {j \in 1..L : cum[j] * qd <= qn * total}
    IN  IF below = {}
        THEN Scale * fp[1]
        ELSE LET j == CHOOSE k \in below : \A l \in below : l <= k
             IN  IF j = L \/ cum[j] * qd = qn * total
                 THEN Scale * fp[j]
                 ELSE Scale * fp[j]
                      + (Scale * (qn * total - cum[j] * qd) * (fp[j + 1] - fp[j]))
                        \div ((cum[j + 1] - cum[j]) * qd)

\* np.sort: ascending, NaN last.
SortLeq(a, b) == b = NaN \/ (a # NaN /\ a <= b)

RECURSIVE Insert(_, _)
Insert(x, s) ==
    IF s = <<>>
    THEN <<x>>
    ELSE IF SortLeq(x, Head(s))
         THEN <<x>> \o s
         ELSE <<Head(s)>> \o Insert(x, Tail(s))

RECURSIVE NpSort(_)
NpSort(s) == IF s = <<>> THEN <<>> ELSE Insert(Head(s), NpSort(Tail(s)))

\* ------------------------------------------------------------ datasets
\* Periodogram: freqs strictly increasing positive, power non-negative.
RECURSIVE IncSeqs(_, _)
IncSeqs(lo, hi) ==
    IF lo > hi
    THEN {<<>>}
    ELSE IncSeqs(lo + 1, hi) \cup {<<lo>> \o s : s \in IncSeqs(lo + 1, hi)}

Periodograms ==
    UNION {{[freqs |-> f, power |-> p] : p \in [1..Len(f) -> 0..MaxPower]}
           : f \in IncSeqs(1, MaxFreq) \ {<<>>}}

\* ------------------------------------------------------------ init_knots
ClampFrac(k) == Max2(0, Min2(k, FracDen))

NUniform(fu, n_knots) == IF fu > 0 THEN Trunc(fu * (n_knots - 2), FracDen) ELSE 0

NLog(fl, n_knots) == IF fl > 0 THEN Trunc(fl * (n_knots - 2), FracDen) ELSE 0

NDensity(n_uniform, n_log, n_knots) == Max2(0, (n_knots - 2) - (n_uniform + n_log))

UniformKnots(min_freq, max_freq, n_uniform) ==
    [i \in 1..n_uniform |-> Linspace(min_freq, max_freq, n_uniform + 2, i)]

LogKnots(min_freq, max_freq, n_log) ==
    [i \in 1..n_log |-> Logspace(min_freq, max_freq, n_log + 2, i)]

DensityKnots(periodogram, n_density) ==
    LET total == SumSeq(periodogram.power)
        cum == CumSum(periodogram.power)
    IN  [i \in 1..n_density |->
            IF total = 0
            THEN NaN
            ELSE Interp(i, n_density + 1, cum, total, periodogram.freqs)]

\* The groups concatenated but left unsorted.
CombineKnotsUnsorted(min_freq, uniform_knots, log_knots, density_knots, max_freq) ==
    <<Scale * min_freq>> \o uniform_knots \o log_knots \o density_knots
    \o <<Scale * max_freq>>

CombineKnots(min_freq, uniform_knots, log_knots, density_knots, max_freq) ==
    NpSort(<<Scale * min_freq>> \o uniform_knots \o log_knots \o density_knots
           \o <<Scale * max_freq>>)

NormalizeKnots(knots, min_freq, max_freq) ==
    [i \in 1..Len(knots) |->
        IF knots[i] = NaN \/ max_freq = min_freq
        THEN NaN
        ELSE (knots[i] - Scale * min_freq) \div (max_freq - min_freq)]

TwoKnots(min_freq, max_freq) == <<Scale * min_freq, Scale * max_freq>>

NoKnots ==
    [n_uniform |-> 0, n_log |-> 0, n_density |-> 0, uniform_knots |-> <<>>,
     log_knots |-> <<>>, density_knots |-> <<>>, combined |-> <<>>]

init_knots(periodogram, n_knots, frac_uniform, frac_log) ==
    IF n_knots < 2
    THEN [raised |-> "ValueError", knots |-> <<>>] @@ NoKnots
    ELSE
    LET min_freq == periodogram.freqs[1]
        max_freq == periodogram.freqs[Len(periodogram.freqs)]
    IN  IF n_knots = 2
        THEN [raised |-> "none", knots |-> TwoKnots(min_freq, max_freq)] @@ NoKnots
        ELSE
        LET fu == ClampFrac(frac_uniform)
            fl == ClampFrac(frac_log)
            n_uniform == NUniform(fu, n_knots)
            n_log == NLog(fl, n_knots)
            n_density == NDensity(n_uniform, n_log, n_knots)
            uniform_knots == UniformKnots(min_freq, max_freq, n_uniform)
            log_knots == LogKnots(min_freq, max_freq, n_log)
            density_knots == DensityKnots(periodogram, n_density)
            combined == CombineKnots(min_freq, uniform_knots, log_knots,
                                     density_knots, max_freq)
        IN  [raised |-> "none",
             knots |-> NormalizeKnots(combined, min_freq, max_freq),
             n_uniform |-> n_uniform, n_log |-> n_log, n_density |-> n_density,
             uniform_knots |-> uniform_knots, log_knots |-> log_knots,
             density_knots |-> density_knots, combined |-> combined]

\* ------------------------------------------------ init_basis_and_penalty
Inf == 0 - 2

Repeat(x, n) == [i \in 1..n |-> x]

\* ndarray.squeeze() on a shape: every axis of length 1 is dropped.
Squeeze(shape) == SelectSeq(shape, LAMBDA d : d # 1)

\* ndarray.T on a shape: the axes reversed.
Transpose(shape) == [i \in 1..Len(shape) |-> shape[Len(shape) + 1 - i]]

\* Shape of (array of shape a) / (vector of length n) under numpy broadcasting,
\* <<0 - 1>> when the shapes do not broadcast.
BroadcastShape(a, n) ==
    IF a = <<>>
    THEN <<n>>
    ELSE LET last == a[Len(a)]
         IN  IF last = n \/ n = 1
             THEN a
             ELSE IF last = 1
                  THEN [a EXCEPT ![Len(a)] = n]
                  ELSE <<0 - 1>>

\* BSplineBasis(domain_range=[0, 1], order, knots).n_basis
BSplineNBasis(knots, order) == Len(knots) + order - 2

KnotsWithBoundary(knots, degree) ==
    Repeat(0, degree) \o knots \o Repeat(Scale, degree)

\* Spans of the padded-knot windows; entry i stands for the factor
\* span[i] / (Scale * (degree + 1)), Inf once a zero span is replaced.
NormFactor(knots, degree) ==
    LET knots_with_boundary == KnotsWithBoundary(knots, degree)
        n_knots_total == Len(knots_with_boundary)
        mid_to_end == SubSeq(knots_with_boundary, degree + 2, n_knots_total)
        start_to_mid == SubSeq(knots_with_boundary, 1, n_knots_total - degree - 1)
    IN  [i \in 1..Len(mid_to_end) |->
            IF mid_to_end[i] - start_to_mid[i] = 0
            THEN Inf
            ELSE mid_to_end[i] - start_to_mid[i]]

\* Entry (r, c) of basis.to_basis().to_grid(grid_points): finite, and zero
\* outside the support of basis function c (the value inside is taken as 1).
RawBasis(knots, degree, n_grid_points) ==
    LET padded == KnotsWithBoundary(knots, degree)
        den == Max2(n_grid_points - 1, 1)
    IN  [r \in 1..n_grid_points |->
            [c \in 1..BSplineNBasis(knots, degree + 1) |->
                IF /\ padded[c] * den <= Scale * (r - 1)
                   /\ Scale * (r - 1) <= padded[c + degree + 1] * den
                THEN 1
                ELSE 0]]

\* x / factor in IEEE arithmetic, factor standing for
\* factor / (Scale * (degree + 1)): 0 for an infinite factor, NaN or Inf for a
\* zero one.
DivideEntry(x, factor, degree) ==
    IF factor = Inf
    THEN 0
    ELSE IF factor = 0
         THEN IF x = 0 THEN NaN ELSE Inf
         ELSE (x * Scale * (degree + 1)) \div factor

init_basis_and_penalty(knots, degree, n_grid_points, diffMatrixOrder) ==
    IF degree < 0 \/ Len(knots) < 2
    THEN [raised |-> "ValueError", basis_shape |-> <<>>, basis |-> <<>>,
          norm_factor |-> <<>>, penalty_shape |-> <<>>]
    ELSE
    LET order == degree + 1
        n_basis == BSplineNBasis(knots, order)
        raw == RawBasis(knots, degree, n_grid_points)
        raw_shape == Transpose(Squeeze(<<n_basis, n_grid_points, 1>>))
        norm_factor == NormFactor(knots, degree)
    IN  [raised |-> "none",
         basis_shape |-> BroadcastShape(raw_shape, Len(norm_factor)),
         basis |-> [r \in 1..n_grid_points |->
                       [c \in 1..n_basis |-> DivideEntry(raw[r][c], norm_factor[c], degree)]],
         norm_factor |-> norm_factor,
         penalty_shape |-> <<n_basis, n_basis>>]

\* ------------------------------------------------------------ LogPSplines
DegreeMax == 5
DiffOrderMax == 2

\* Python values of more than one possible type carry their type.
PyNone == [ty |-> "NoneType", v |-> <<>>]

PyArr(a) == [ty |-> "array", v |-> a]

PyInt(i) == [ty |-> "int", v |-> i]

PyFloat(x) == [ty |-> "float", v |-> x]

PyPeriodogram(p) == [ty |-> "Periodogram", v |-> p]

n_knots_of(knots) == Len(knots)

n_basis_of(knots, degree) == n_knots_of(knots) + degree - 1

\* __post_init__ without the range check on degree.
post_init_no_degree_range(degree, diffMatrixOrder, knots) ==
    IF degree < diffMatrixOrder
    THEN "ValueError: Degree must be larger than diffMatrixOrder."
    ELSE IF diffMatrixOrder \notin 0..DiffOrderMax
         THEN "ValueError: diffMatrixOrder must be 0, 1, or 2."
         ELSE IF n_knots_of(knots) < degree
              THEN "ValueError: #knots"
              ELSE "none"

\* LogPSplines.__post_init__: the error it raises, "none" when it passes.
post_init(degree, diffMatrixOrder, knots) ==
    IF degree < diffMatrixOrder
    THEN "ValueError: Degree must be larger than diffMatrixOrder."
    ELSE IF degree \notin 0..DegreeMax
         THEN "ValueError: Degree must be between 0 and 5."
         ELSE IF diffMatrixOrder \notin 0..DiffOrderMax
              THEN "ValueError: diffMatrixOrder must be 0, 1, or 2."
              ELSE IF n_knots_of(knots) < degree
                   THEN "ValueError: #knots"
                   ELSE "none"

NoModel == [exists |-> FALSE]

\* The dataclass instance: its fields, and the attribute the property
\* log_parametric_model sets on first use.
LogPSplines(degree, diffMatrixOrder, n, basis, penalty_matrix, knots, weights, parametric_model) ==
    [exists |-> TRUE, degree |-> degree, diffMatrixOrder |-> diffMatrixOrder,
     n |-> n, basis |-> basis, penalty_matrix |-> penalty_matrix, knots |-> knots,
     weights |-> weights, parametric_model |-> parametric_model,
     has_log_parametric_model |-> FALSE, cached_log_parametric_model |-> <<>>]

\* The dataclass fields of an instance (everything but the cache attribute).
Fields(m) ==
    [degree |-> m.degree, diffMatrixOrder |-> m.diffMatrixOrder, n |-> m.n,
     basis |-> m.basis, penalty_matrix |-> m.penalty_matrix, knots |-> m.knots,
     weights |-> m.weights, parametric_model |-> m.parametric_model]

\* LogPSplines(...): the dataclass __init__ followed by __post_init__.
Construct(degree, diffMatrixOrder, n, basis, penalty_matrix, knots, weights, parametric_model) ==
    LET err == post_init(degree, diffMatrixOrder, knots)
    IN  IF err # "none"
        THEN [raised |-> "ValueError", message |-> err, model |-> NoModel]
        ELSE [raised |-> "none", message |-> "",
              model |-> LogPSplines(degree, diffMatrixOrder, n, basis,
                                    penalty_matrix, knots, weights,
                                    parametric_model)]

\* jnp.log of a positive integer, in fixed point: the largest k with
\* e^(k / Scale) <= x (e taken as 2.718); minus infinity for 0.
NegInf == 0 - 1000000

\* From k with p = 2718^k <= q = x^Scale * 1000^k, the largest such k.
RECURSIVE LnUp(_, _, _)
LnUp(k, p, q) ==
    LET p1 == BigMul(p, 2718)
        q1 == BigMul(q, 1000)
    IN  IF BigLeq(p1, q1) THEN LnUp(k + 1, p1, q1) ELSE k

Ln(x) == IF x = 0 THEN NegInf ELSE LnUp(0, <<1>>, BigPow(x, Scale))

LogArr(a) == [i \in 1..Len(a) |-> Ln(a[i])]

\* The property without its hasattr test: the log is taken on every access.
log_parametric_model_uncached(m) ==
    LET pm == IF m.parametric_model.ty = "NoneType"
              THEN PyArr(Repeat(1, m.n))
              ELSE m.parametric_model
        value == LogArr(pm.v)
    IN  [model |-> [m EXCEPT !.parametric_model = pm,
                             !.has_log_parametric_model = TRUE,
                             !.cached_log_parametric_model = value],
         value |-> value, computed |-> TRUE]

\* The property log_parametric_model: the instance after the access and the
\* value returned.
log_parametric_model(m) ==
    IF ~m.has_log_parametric_model
    THEN LET pm == IF m.parametric_model.ty = "NoneType"
                   THEN PyArr(Repeat(1, m.n))
                   ELSE m.parametric_model
             value == LogArr(pm.v)
         IN  [model |-> [m EXCEPT !.parametric_model = pm,
                                  !.has_log_parametric_model = TRUE,
                                  !.cached_log_parametric_model = value],
              value |-> value, computed |-> TRUE]
    ELSE [model |-> m, value |-> m.cached_log_parametric_model, computed |-> FALSE]

\* bayesian_model.build_spline: the weighted sum of the basis columns.
build_spline(basis, weights) ==
    [r \in 1..Len(basis) |->
        SumSeq([c \in 1..Len(weights) |-> basis[r][c] * weights[c]])]

\* __call__ evaluating the stored weights whatever it is given.
spline_call_stored(m, weights) == build_spline(m.basis, m.weights)

\* LogPSplines.__call__(weights=None)
spline_call(m, weights) ==
    build_spline(m.basis, IF weights.ty = "NoneType" THEN m.weights ELSE weights.v)

\* ------------------------------------------------------------ init_weights
NumStepsDefault == 5000

Sgn(x) == IF x > 0 THEN 1 ELSE IF x < 0 THEN 0 - 1 ELSE 0

\* compute_loss's gradient: -whittle_lnlike(log_pdgrm, log_psplines(weights))
\* differentiated in the weights.  Each grid point contributes its basis row,
\* signed by whether the spline lies above or below the target.
grad_compute_loss(log_pdgrm, log_psplines, weights) ==
    LET spline == spline_call(log_psplines, PyArr(weights))
    IN  [c \in 1..Len(weights) |->
            SumSeq([r \in 1..Len(log_pdgrm) |->
                       log_psplines.basis[r][c] * Sgn(spline[r] - log_pdgrm[r])])]

\* optimizer.init: the step count and the first moment.
adam_init(params) == [count |-> 0, mu |-> Repeat(0, Len(params))]

\* optimizer.update: weights are held in units of the learning rate, and an
\* update moves each weight one unit against the sign of its first moment.
adam_update(grads, opt_state) ==
    LET mu == [c \in 1..Len(grads) |-> opt_state.mu[c] + grads[c]]
    IN  [updates |-> [c \in 1..Len(grads) |-> 0 - Sgn(mu[c])],
         opt_state |-> [count |-> opt_state.count + 1, mu |-> mu]]

\* step(i, state) of init_weights.
step(log_pdgrm, log_psplines, state) ==
    LET grads == grad_compute_loss(log_pdgrm, log_psplines, state.weights)
        u == adam_update(grads, state.opt_state)
    IN  [weights |-> [c \in 1..Len(state.weights) |-> state.weights[c] + u.updates[c]],
         opt_state |-> u.opt_state]

init_state(log_psplines, init_weights) ==
    LET w == IF init_weights.ty = "NoneType"
             THEN Repeat(0, n_basis_of(log_psplines.knots, log_psplines.degree))
             ELSE init_weights.v
    IN  [weights |-> w, opt_state |-> adam_init(w)]

num_steps_of(num_steps) ==
    IF num_steps.ty = "NoneType" THEN NumStepsDefault ELSE num_steps.v

\* jax.lax.fori_loop(lower, upper, step, state)
RECURSIVE fori_loop(_, _, _, _, _)
fori_loop(lower, upper, log_pdgrm, log_psplines, state) ==
    IF lower >= upper
    THEN state
    ELSE fori_loop(lower + 1, upper, log_pdgrm, log_psplines,
                   step(log_pdgrm, log_psplines, state))

init_weights(log_pdgrm, log_psplines, init_w, num_steps) ==
    fori_loop(0, num_steps_of(num_steps), log_pdgrm, log_psplines,
              init_state(log_psplines, init_w)).weights

\* -------------------------------------------------------- from_periodogram
FracLogDefault == (4 * FracDen) \div 5

IsNumber(x) == x.ty \in {"int", "float"}

\* init_knots as Python evaluates it on arguments of any type: the comparison
\* n_knots < 2 needs a number, periodogram.freqs a Periodogram, and min(frac, 1.0)
\* a number.
init_knots_py(periodogram, n_knots, frac_uniform, frac_log) ==
    IF ~IsNumber(n_knots)
    THEN [raised |-> "TypeError", knots |-> <<>>] @@ NoKnots
    ELSE IF n_knots.v < 2
    THEN [raised |-> "ValueError", knots |-> <<>>] @@ NoKnots
    ELSE IF periodogram.ty # "Periodogram"
    THEN [raised |-> "AttributeError", knots |-> <<>>] @@ NoKnots
    ELSE IF n_knots.v > 2 /\ ~(IsNumber(frac_uniform) /\ IsNumber(frac_log))
    THEN [raised |-> "TypeError", knots |-> <<>>] @@ NoKnots
    ELSE init_knots(periodogram.v, n_knots.v, frac_uniform.v, frac_log.v)

\* The call init_knots(n_knots, periodogram, parametric_model, **knot_kwargs):
\* three positional arguments, then the keywords.
call_init_knots(arg1, arg2, arg3, knot_kwargs) ==
    IF knot_kwargs.has_frac_uniform
    THEN [raised |-> "TypeError", knots |-> <<>>] @@ NoKnots
    ELSE init_knots_py(arg1, arg2, arg3,
                       IF knot_kwargs.has_frac_log
                       THEN PyFloat(knot_kwargs.frac_log)
                       ELSE PyFloat(FracLogDefault))

Failed(raised, ran) == [raised |-> raised, ran |-> ran, model |-> NoModel]

from_periodogram(periodogram, n_knots, degree, diffMatrixOrder, parametric_model, knot_kwargs) ==
    LET k == call_init_knots(PyInt(n_knots), PyPeriodogram(periodogram),
                             parametric_model, knot_kwargs)
    IN  IF k.raised # "none"
        THEN Failed(k.raised, <<>>)
        ELSE
    LET n == Len(periodogram.freqs)
        bp == init_basis_and_penalty(k.knots, degree, n, diffMatrixOrder)
    IN  IF bp.raised # "none"
        THEN Failed(bp.raised, <<"init_knots">>)
        ELSE IF Len(bp.basis_shape) < 2
        THEN Failed("IndexError", <<"init_knots", "init_basis_and_penalty">>)
        ELSE
    LET c == Construct(degree, diffMatrixOrder, n, bp.basis, bp.penalty_shape,
                       k.knots, Repeat(0, bp.basis_shape[2]), parametric_model)
    IN  IF c.raised # "none"
        THEN Failed(c.raised, <<"init_knots", "init_basis_and_penalty">>)
        ELSE
    LET weights == init_weights(LogArr(periodogram.power), c.model, PyNone, PyNone)
    IN  [raised |-> "none",
         ran |-> <<"init_knots", "init_basis_and_penalty", "LogPSplines",
                   "init_weights">>,
         model |-> [c.model EXCEPT !.weights = weights]]

\* ------------------------------------------------------------ calls
\* A call of one of the functions: its arguments, and once it has run what it
\* returned or raised.
MaxBasisKnots == 4  \* longest knot array handed to init_basis_and_penalty
MaxGrid == 3        \* largest n_grid_points

Fracs == (0 - 1)..(FracDen + 1)

\* Normalized knot arrays of length len: non-decreasing from 0 to 1.
KnotArrays(len) ==
    {k \in [1..len -> 0..Scale] :
        /\ k[1] = 0
        /\ k[len] = Scale
        /\ \A i \in 1..(len - 1) : k[i] <= k[i + 1]}

\* Some array of length len (the constructor reads only its length).
SomeKnots(len) == [i \in 1..len |-> IF i = len THEN Scale ELSE 0]

FlatPeriodograms == {p \in Periodograms : \A i \in 1..Len(p.power) : p.power[i] = 1}

KnotKwargs ==
    {[has_frac_uniform |-> FALSE, has_frac_log |-> FALSE, frac_log |-> 0],
     [has_frac_uniform |-> FALSE, has_frac_log |-> TRUE, frac_log |-> 1],
     [has_frac_uniform |-> TRUE, has_frac_log |-> FALSE, frac_log |-> 0]}

InitKnotsArgs ==
    [op : {"init_knots"}, periodogram : Periodograms, n_knots : 0..MaxKnots,
     frac_uniform : Fracs, frac_log : Fracs]

InitBasisArgs ==
    [op : {"init_basis_and_penalty"},
     knots : UNION {KnotArrays(len) : len \in 2..MaxBasisKnots},
     degree : 0..(DegreeMax + 1), n_grid_points : 1..MaxGrid,
     diffMatrixOrder : 0..DiffOrderMax]

ConstructArgs ==
    [op : {"LogPSplines"}, degree : (0 - 1)..(DegreeMax + 1),
     diffMatrixOrder : (0 - 1)..(DiffOrderMax + 1),
     knots : {SomeKnots(len) : len \in 0..MaxKnots}]

FromPeriodogramArgs ==
    [op : {"from_periodogram"}, periodogram : FlatPeriodograms,
     n_knots : 0..MaxKnots, degree : (0 - 1)..(DegreeMax + 1),
     diffMatrixOrder : (0 - 1)..(DiffOrderMax + 1),
     parametric_model : {PyNone, PyArr(<<1>>)}, knot_kwargs : KnotKwargs]

Pending(args) == [args |-> args, done |-> FALSE, out |-> [raised |-> "none"]]

IdleWeights == [pc |-> "idle"]

NoObs == [op |-> "none"]

InitCalls ==
    /\ \/ call \in {Pending(a) : a \in InitKnotsArgs}
       \/ call \in {Pending(a) : a \in InitBasisArgs}
       \/ call \in {Pending(a) : a \in ConstructArgs}
       \/ call \in {Pending(a) : a \in FromPeriodogramArgs}
    /\ model = NoModel
    /\ iw = IdleWeights
    /\ obs = NoObs

InitKnotsCall ==
    /\ call.args.op = "init_knots"
    /\ ~call.done
    /\ call' = [call EXCEPT !.done = TRUE,
                            !.out = init_knots(call.args.periodogram, call.args.n_knots,
                                               call.args.frac_uniform, call.args.frac_log)]
    /\ UNCHANGED <<model, iw, obs>>

InitBasisCall ==
    /\ call.args.op = "init_basis_and_penalty"
    /\ ~call.done
    /\ call' = [call EXCEPT !.done = TRUE,
                            !.out = init_basis_and_penalty(
                                        call.args.knots, call.args.degree,
                                        call.args.n_grid_points,
                                        call.args.diffMatrixOrder)]
    /\ UNCHANGED <<model, iw, obs>>

ConstructCall ==
    /\ call.args.op = "LogPSplines"
    /\ ~call.done
    /\ call' = [call EXCEPT !.done = TRUE,
                            !.out = Construct(call.args.degree,
                                              call.args.diffMatrixOrder, 1, <<>>, <<>>,
                                              call.args.knots, <<>>, PyNone)]
    /\ UNCHANGED <<model, iw, obs>>

FromPeriodogramCall ==
    /\ call.args.op = "from_periodogram"
    /\ ~call.done
    /\ call' = [call EXCEPT !.done = TRUE,
                            !.out = from_periodogram(
                                        call.args.periodogram, call.args.n_knots,
                                        call.args.degree, call.args.diffMatrixOrder,
                                        call.args.parametric_model,
                                        call.args.knot_kwargs)]
    /\ UNCHANGED <<model, iw, obs>>

NextCalls ==
    \/ InitKnotsCall
    \/ InitBasisCall
    \/ ConstructCall
    \/ FromPeriodogramCall

SpecCalls == InitCalls /\ [][NextCalls]_vars

\* ------------------------------------------------------------ a model in use
\* One LogPSplines instance and the operations made on it; obs records what
\* the last operation returned and how often the log was computed.
MaxModelGrid == 2   \* largest grid length n of an instance
MaxParam == 2       \* parametric_model values are drawn from 1..MaxParam
MaxAccess == 3      \* accesses of log_parametric_model per instance
MaxWeight == 1      \* assigned weights are constant vectors of 0..MaxWeight

NoCall == [args |-> [op |-> "none"], done |-> TRUE, out |-> [raised |-> "none"]]

ParametricModels(n) == {PyNone} \cup {PyArr(a) : a \in [1..n -> 1..MaxParam]}

InitModel ==
    /\ call = NoCall
    /\ model = NoModel
    /\ iw = IdleWeights
    /\ obs = NoObs

\* A model as from_periodogram assembles it: the basis of its knots, zero
\* weights.
Assemble(knots, degree, diffMatrixOrder, n, parametric_model) ==
    LET bp == init_basis_and_penalty(knots, degree, n, diffMatrixOrder)
    IN  Construct(degree, diffMatrixOrder, n, bp.basis, bp.penalty_shape, knots,
                  Repeat(0, n_basis_of(knots, degree)), parametric_model)

New ==
    /\ ~model.exists
    /\ \E knots \in KnotArrays(2) \cup KnotArrays(3), degree \in 0..DegreeMax,
          diffMatrixOrder \in 0..DiffOrderMax, n \in 1..MaxModelGrid :
          \E parametric_model \in ParametricModels(n) :
             LET c == Assemble(knots, degree, diffMatrixOrder, n, parametric_model)
             IN  /\ c.raised = "none"
                 /\ model' = c.model
                 /\ obs' = [op |-> "LogPSplines", value |-> <<>>, computes |-> 0,
                            accesses |-> 0, first |-> <<>>,
                            before |-> Fields(c.model),
                            given |-> parametric_model]
    /\ UNCHANGED <<call, iw>>

AccessLogParametricModel ==
    /\ model.exists
    /\ obs.accesses < MaxAccess
    /\ LET r == log_parametric_model(model)
       IN  /\ model' = r.model
           /\ obs' = [obs EXCEPT !.op = "log_parametric_model",
                                 !.value = r.value,
                                 !.computes = @ + (IF r.computed THEN 1 ELSE 0),
                                 !.accesses = @ + 1,
                                 !.first = IF obs.accesses = 0 THEN r.value ELSE @,
                                 !.before = Fields(model)]
    /\ UNCHANGED <<call, iw>>

\* Constant weight vectors of length len.
WeightVectors(len) == {Repeat(v, len) : v \in 0..MaxWeight}

Evaluate ==
    /\ model.exists
    /\ \E weights \in {PyNone}
                      \cup {PyArr(w) : w \in WeightVectors(Len(model.weights))} :
          obs' = [obs EXCEPT !.op = "__call__",
                             !.value = spline_call(model, weights),
                             !.before = Fields(model)]
    /\ UNCHANGED <<call, model, iw>>

\* model.weights = weights, as from_periodogram does with the fitted weights.
AssignWeights ==
    /\ model.exists
    /\ \E w \in WeightVectors(Len(model.weights)) :
          /\ w # model.weights
          /\ model' = [model EXCEPT !.weights = w]
          /\ obs' = [obs EXCEPT !.op = "weights=", !.value = <<>>,
                                !.before = Fields(model)]
    /\ UNCHANGED <<call, iw>>

NextModel ==
    \/ New
    \/ AccessLogParametricModel
    \/ Evaluate
    \/ AssignWeights

SpecModel == InitModel /\ [][NextModel]_vars

\* ------------------------------------------------------------ a weight fit
\* init_weights as a loop: one action per fori_loop iteration.
MaxSteps == 3       \* largest explicit num_steps
MaxTarget == 1      \* log-power targets are drawn from 0..MaxTarget

WeightModels ==
    {Assemble(knots, 1, 0, 2, PyNone).model
        : knots \in {<<0, Scale>>, <<0, Scale \div 2, Scale>>}}

InitWeightsSpec ==
    /\ call = NoCall
    /\ model \in WeightModels
    /\ iw = IdleWeights
    /\ obs = NoObs

Entered(log_pdgrm, init_w, num_steps, run, first) ==
    LET s == init_state(model, init_w)
    IN  [pc |-> "loop", log_pdgrm |-> log_pdgrm, init_w |-> init_w,
         num_steps |-> num_steps, upper |-> num_steps_of(num_steps), i |-> 0,
         state |-> s, result |-> <<>>, run |-> run, first |-> first,
         start |-> s.weights, target_at_call |-> log_pdgrm,
         stored_at_call |-> model.weights, stored |-> FALSE]

IwCall ==
    /\ iw.pc = "idle"
    /\ \E log_pdgrm \in [1..model.n -> 0..MaxTarget],
          init_w \in {PyNone, PyArr(Repeat(1, Len(model.weights)))},
          num_steps \in {PyNone} \cup {PyInt(k) : k \in 0..MaxSteps} :
          iw' = Entered(log_pdgrm, init_w, num_steps, 1, <<>>)
    /\ UNCHANGED <<call, model, obs>>

IwStep ==
    /\ iw.pc = "loop"
    /\ iw.i < iw.upper
    /\ iw' = [iw EXCEPT !.i = @ + 1,
                        !.state = step(iw.log_pdgrm, model, iw.state)]
    /\ UNCHANGED <<call, model, obs>>

IwReturn ==
    /\ iw.pc = "loop"
    /\ iw.i >= iw.upper
    /\ iw' = [iw EXCEPT !.pc = "done", !.result = iw.state.weights]
    /\ UNCHANGED <<call, model, obs>>

\* model.weights = weights (from_periodogram)
StoreWeights ==
    /\ iw.pc = "done"
    /\ ~iw.stored
    /\ iw.run = 1
    /\ model' = [model EXCEPT !.weights = iw.result]
    /\ iw' = [iw EXCEPT !.stored = TRUE]
    /\ UNCHANGED <<call, obs>>

\* A second run on the same target, initial vector and num_steps.
IwCallAgain ==
    /\ iw.pc = "done"
    /\ iw.stored
    /\ iw.run = 1
    /\ iw' = Entered(iw.log_pdgrm, iw.init_w, iw.num_steps, 2, iw.result)
    /\ UNCHANGED <<call, model, obs>>

NextWeights ==
    \/ IwCall
    \/ IwStep
    \/ IwReturn
    \/ StoreWeights
    \/ IwCallAgain

SpecWeights == InitWeightsSpec /\ [][NextWeights]_vars

\* ------------------------------------------------------------ claims on calls
Returned(op) == call.done /\ call.args.op = op

NonDecreasing(s) == \A i \in 1..(Len(s) - 1) : s[i] # NaN /\ s[i + 1] # NaN /\ s[i] <= s[i + 1]

\* np.sort's order: non-NaN values ascending, NaN after them.
AscendingNaNLast(s) ==
    \A i \in 1..(Len(s) - 1) :
        \/ s[i + 1] = NaN
        \/ (s[i] # NaN /\ s[i] <= s[i + 1])

Count(s, v) == Cardinality({i \in 1..Len(s) : s[i] = v})

SameElements(s, t) ==
    /\ Len(s) = Len(t)
    /\ \A i \in 1..Len(s) : Count(s, s[i]) = Count(t, s[i])

ValidFractions(a) ==
    /\ a.frac_uniform \in 0..FracDen
    /\ a.frac_log \in 0..FracDen
    /\ a.frac_uniform + a.frac_log <= FracDen

\* C1: for n_knots >= 2 and fractions in [0,1] summing to at most 1, init_knots
\* returns exactly n_knots knots, non-decreasing, within [0,1], the first 0.0
\* and the last 1.0.
C1_KnotsNormalizedArray ==
    (Returned("init_knots") /\ call.args.n_knots >= 2 /\ ValidFractions(call.args))
    => /\ call.out.raised = "none"
       /\ Len(call.out.knots) = call.args.n_knots
       /\ NonDecreasing(call.out.knots)
       /\ \A i \in 1..Len(call.out.knots) : call.out.knots[i] \in 0..Scale
       /\ call.out.knots[1] = 0
       /\ call.out.knots[Len(call.out.knots)] = Scale

\* C2: for n_knots = 2, init_knots returns exactly [0.0, 1.0], whatever the
\* spectrum and the fractions.
C2_TwoKnotsAreZeroOne ==
    (Returned("init_knots") /\ call.args.n_knots = 2)
    => /\ call.out.raised = "none"
       /\ call.out.knots = <<0, Scale>>

InvalidConfiguration(a) ==
    \/ a.degree \notin 0..5
    \/ a.diffMatrixOrder \notin 0..2
    \/ a.degree < a.diffMatrixOrder
    \/ a.n_knots < a.degree
    \/ a.n_knots < 2

\* C4: from_periodogram raises the configuration error of an invalid
\* configuration before any stage (knot selection, basis and penalty
\* construction, weight initialisation) has run.
C4_ConfigurationErrorFirst ==
    (Returned("from_periodogram") /\ InvalidConfiguration(call.args))
    => /\ call.out.raised = "ValueError"
       /\ call.out.ran = <<>>
       /\ ~call.out.model.exists

\* C5: on a valid input from_periodogram runs knot selection, basis and
\* penalty construction, model construction and weight initialisation, in
\* this order and once each, and returns a model with the n_knots selected
\* knots and n_knots + degree - 1 weights.
C5_FromPeriodogramPipeline ==
    (Returned("from_periodogram") /\ ~InvalidConfiguration(call.args)
        /\ ~call.args.knot_kwargs.has_frac_uniform)
    => /\ call.out.raised = "none"
       /\ call.out.ran = <<"init_knots", "init_basis_and_penalty", "LogPSplines",
                           "init_weights">>
       /\ call.out.model.exists
       /\ Len(call.out.model.knots) = call.args.n_knots
       /\ Len(call.out.model.weights) = call.args.n_knots + call.args.degree - 1

\* C6: for n_knots > 2 and any fractions, init_knots does not raise, the
\* three group sizes are non-negative and sum to n_knots - 2, and the result
\* has exactly n_knots entries.
C6_ClampedCountsSumToInterior ==
    (Returned("init_knots") /\ call.args.n_knots > 2)
    => /\ call.out.raised = "none"
       /\ call.out.n_uniform >= 0
       /\ call.out.n_log >= 0
       /\ call.out.n_density >= 0
       /\ call.out.n_uniform + call.out.n_log + call.out.n_density
          = call.args.n_knots - 2
       /\ Len(call.out.knots) = call.args.n_knots

\* C9: init_basis_and_penalty returns a basis matrix of shape
\* (n_grid_points, n_knots + degree - 1); the normalization vector has
\* n_knots + degree - 1 entries, infinite where the padded-knot window has
\* zero span, and no entry of the matrix is NaN or Inf.
C9_BasisShapeAndFiniteness ==
    Returned("init_basis_and_penalty")
    => LET n_basis == Len(call.args.knots) + call.args.degree - 1
           padded == KnotsWithBoundary(call.args.knots, call.args.degree)
       IN  /\ call.out.raised = "none"
           /\ call.out.basis_shape = <<call.args.n_grid_points, n_basis>>
           /\ Len(call.out.norm_factor) = n_basis
           /\ \A c \in 1..n_basis :
                 padded[c + call.args.degree + 1] = padded[c]
                 => /\ call.out.norm_factor[c] = Inf
                    /\ \A r \in 1..call.args.n_grid_points : call.out.basis[r][c] = 0
           /\ \A r \in 1..call.args.n_grid_points : \A c \in 1..n_basis :
                 call.out.basis[r][c] \notin {NaN, Inf}

\* C10: for n_knots > 2 and fractions in [0,1] summing to at most 1, the
\* interior knots are split as n_uniform = trunc(frac_uniform * (n_knots - 2)),
\* n_log = trunc(frac_log * (n_knots - 2)) and the rest density knots, and the
\* array before normalization is the ascending sort of min, max and the three
\* groups; n_knots = 10, frac_uniform = 0, frac_log = 0.8 gives 0 uniform,
\* 6 log and 2 density knots.
C10_SplitAndSortedUnion ==
    (Returned("init_knots") /\ call.args.n_knots > 2 /\ ValidFractions(call.args))
    => LET a == call.args
           o == call.out
           interior == a.n_knots - 2
           f == a.periodogram.freqs
       IN  /\ o.n_uniform * FracDen <= a.frac_uniform * interior
           /\ a.frac_uniform * interior < (o.n_uniform + 1) * FracDen
           /\ o.n_log * FracDen <= a.frac_log * interior
           /\ a.frac_log * interior < (o.n_log + 1) * FracDen
           /\ o.n_density = interior - o.n_uniform - o.n_log
           /\ Len(o.uniform_knots) = o.n_uniform
           /\ Len(o.log_knots) = o.n_log
           /\ Len(o.density_knots) = o.n_density
           /\ AscendingNaNLast(o.combined)
           /\ SameElements(o.combined,
                           <<Scale * f[1]>> \o o.uniform_knots \o o.log_knots
                           \o o.density_knots \o <<Scale * f[Len(f)]>>)
           /\ (a.n_knots = 10 /\ a.frac_uniform = 0 /\ 5 * a.frac_log = 4 * FracDen)
              => (o.n_uniform = 0 /\ o.n_log = 6 /\ o.n_density = 2)

C10_Witness ==
    /\ Returned("init_knots")
    /\ call.args.n_knots = 10
    /\ call.args.frac_uniform = 0
    /\ 5 * call.args.frac_log = 4 * FracDen
    /\ call.args.periodogram.freqs = <<1, 2, 3>>
    /\ call.out.n_log = 6
    /\ call.out.n_density = 2
    /\ Len(call.out.combined) = 10

\* ------------------------------------------------------------ claims on a model
DefaultLog(n) == Repeat(0, n)

ExpectedLog ==
    IF obs.given.ty = "NoneType" THEN DefaultLog(model.n) ELSE LogArr(obs.given.v)

LogComputedOnce ==
    model.exists
    => /\ obs.computes <= 1
       /\ obs.accesses >= 1
          => /\ obs.computes = 1
             /\ model.has_log_parametric_model
             /\ obs.first = ExpectedLog
             /\ model.cached_log_parametric_model = obs.first
       /\ obs.op = "log_parametric_model" => obs.value = obs.first

\* C7 as stated: log_parametric_model is computed at most once, the first
\* access returns log(parametric_model) (all zeros when none was supplied),
\* later accesses return that cached value, and an access changes nothing of
\* the model but the cache.
C7_AccessLeavesModelUnchanged ==
    /\ LogComputedOnce
    /\ (model.exists /\ obs.op = "log_parametric_model")
       => Fields(model) = obs.before

\* C7 amended: as above, but an access changes nothing of the model but the
\* cache and, when no parametric model was supplied, the field
\* parametric_model, which the first access sets to the all-ones curve.
C7_CachedLogParametricModel ==
    /\ LogComputedOnce
    /\ (model.exists /\ obs.op = "log_parametric_model")
       => Fields(model)
          = [obs.before EXCEPT !.parametric_model =
                IF @.ty = "NoneType" THEN PyArr(Repeat(1, model.n)) ELSE @]

C7_Witness ==
    /\ model.exists
    /\ obs.op = "log_parametric_model"
    /\ obs.accesses = 3
    /\ obs.computes = 1
    /\ obs.given = PyArr(<<2, 1>>)
    /\ obs.value = <<Ln(2), 0>>
    /\ Ln(2) > 0
    /\ model.weights # Repeat(0, Len(model.weights))

\* ------------------------------------------------------------ claims on a fit
\* C8: init_weights makes exactly num_steps optimizer updates (5000 when
\* num_steps is not given) with no early exit, starts from the zero vector of
\* length n_basis when no initial vector is given, returns the same weights
\* when run again on the same inputs, and changes neither the target nor the
\* model's stored weights.
C8_FixedStepsDeterministic ==
    /\ iw.pc = "loop"
       => /\ iw.state.opt_state.count = iw.i
          /\ iw.i <= iw.upper
    /\ iw.pc = "done"
       => /\ iw.state.opt_state.count
             = (IF iw.num_steps.ty = "NoneType" THEN 5000 ELSE iw.num_steps.v)
          /\ iw.result = iw.state.weights
          /\ iw.run = 2 => iw.result = iw.first
    /\ (iw.pc # "idle" /\ iw.init_w.ty = "NoneType")
       => iw.start = Repeat(0, Len(model.knots) + model.degree - 1)
    /\ (iw.pc # "idle" /\ iw.init_w.ty # "NoneType") => iw.start = iw.init_w.v
    /\ iw.pc # "idle"
       => /\ iw.log_pdgrm = iw.target_at_call
          /\ ~iw.stored => model.weights = iw.stored_at_call

C8_Witness ==
    /\ iw.pc = "done"
    /\ iw.run = 2
    /\ iw.num_steps.ty = "NoneType"
    /\ iw.init_w.ty = "NoneType"
    /\ iw.state.opt_state.count = 5000
    /\ iw.start = <<0, 0, 0>>
    /\ iw.stored_at_call # iw.start
    /\ iw.result = iw.first

====
